---- MODULE Spec2Model ----
(***************************************************************************)
(* Vehicle route planning (sharmas1ddharth/vrp): the travel-matrix         *)
(* preprocessing pipeline of api/app.py and the visit/vehicle entity       *)
(* graph of src/domain, with the arrival-time cascade.                     *)
(*                                                                         *)
(* Units.  Durations and distances are floats in the program.  The model   *)
(* holds them as integers counting TENTHS (of a second, of a metre), so    *)
(* that 59.5 is 595 and round(), the clamp to 60.0 and round(x, 1) are     *)
(* computed, not assumed.  Datetimes and timedeltas are whole seconds.     *)
(***************************************************************************)
EXTENDS Integers, Sequences, FiniteSets, TLC

VARIABLES
    \* ---- json_to_vehicle_route_plan, api/app.py:547-622 ----
    pc,                 \* position inside json_to_vehicle_route_plan
    durations,          \* json['durationResponse']['durations'] (tenths of s)
    distances,          \* json['durationResponse']['distances'] (tenths of m)
    number_of_vehicles, \* len(json['vehicles'])
    number_of_customers,\* len(json['customers'])
    request_durations,  \* history: the durations as the request gave them
    request_distances,  \* history: the distances as the request gave them
    request_vehicle,    \* json customer['vehicle']: the vehicle a customer names
    request_service_duration, \* json customer['serviceDuration'] (s)
    \* ---- Location, src/domain/location.py ----
    driving_time_seconds_map,    \* per plan location: coordinate -> tenths of s
    driving_distance_meters_map, \* per plan location: coordinate -> tenths of m
    \* ---- Vehicle / Customer, src/domain/customer_vehicle.py ----
    phase,              \* "request" | "constructed" | "solving" | "failed"
    customers,          \* Vehicle.customers: vehicle -> sequence of visits
    departure_time,     \* Vehicle.departure_time (s)
    vehicle,            \* Customer.vehicle (shadow)
    previous_customer,  \* Customer.previous_customer (shadow)
    next_customer,      \* Customer.next_customer (shadow)
    arrival_time,       \* Customer.arrival_time (shadow, cascading)
    last_move,          \* history: the last operation applied to the plan
    location,           \* Customer.location: visit -> coordinate, as the
                        \* request's customers give it
    plan_customers,     \* VehicleRoutePlan.customers: the list of visits
    response,           \* what the last get_route call returned
    \* ---- the registry and the event loop, api/app.py ----
    data_sets,          \* data_sets: solver id -> the plan stored under it
    issued,             \* history: how many solver ids uuid4 has given out
    running,            \* the handler the event loop is running
    answer,             \* what the last finished handler gave its caller
    cleared             \* history: ids given out before the last clear

pipelineVars == <<pc, durations, distances, number_of_vehicles,
                  number_of_customers, request_durations, request_distances,
                  request_vehicle, request_service_duration>>
lookupVars == <<driving_time_seconds_map, driving_distance_meters_map>>
planVars == <<phase, customers, departure_time, vehicle, previous_customer,
              next_customer, arrival_time, last_move, location, plan_customers,
              response>>
registryVars == <<data_sets, issued, running, answer, cleared>>
vars == <<pipelineVars, lookupVars, planVars, registryVars>>

(***************************************************************************)
(* Bounds of the model.                                                    *)
(***************************************************************************)
MaxVehicles == 2         \* vehicles in a request
MaxMatrixCustomers == 1  \* customers in the raw matrix of a pipeline run
MaxVisits == 3           \* visits of the plan the engine mutates
MaxInputLen == 1         \* length of a vehicle's customers list in the input
MaxChangeVisits == 2     \* visits of the plan a problem change is applied to
MaxNamingCustomers == 1  \* customers of a request that may name a vehicle
MaxRequests == 3         \* POST /route-plans requests the registry sees

\* Python's None, where the program holds a vehicle, a visit or a time:
\* those are numbers from 0 up in the model.
None == -1

(***************************************************************************)
(* Numbers.                                                                *)
(***************************************************************************)
\* Python 3 round(): to the nearest integer, ties to the even one.  x is in
\* tenths; the result is in whole units.
RoundHalfEven(x) ==
    LET q == x \div 10
        r == x % 10
    IN  IF r < 5 THEN q
        ELSE IF r > 5 THEN q + 1
        ELSE IF q % 2 = 0 THEN q ELSE q + 1

Rep(x, n) == [i \in 1..n |-> x]

(***************************************************************************)
(* The preprocessing steps of json_to_vehicle_route_plan, as functions of  *)
(* a matrix (a sequence of rows).                                          *)
(***************************************************************************)
\* app.py:572  [[round(value) for value in row] for row in durations]
round_durations(m) ==
    [i \in DOMAIN m |-> [j \in DOMAIN m[i] |-> 10 * RoundHalfEven(m[i][j])]]

\* A slip that leaves the clamp out.
modify_duration_matrix_NoClamp(m) == m

\* app.py:540-545  entries below 60 that are not 0 become 60.0
modify_duration_matrix(m) ==
    [i \in DOMAIN m |->
        [j \in DOMAIN m[i] |->
            IF m[i][j] < 600 /\ m[i][j] # 0 THEN 600 ELSE m[i][j]]]

\* range(number_of_vehicles - 1) is empty for 0 and 1 vehicles.
Range(n) == IF n > 0 THEN n ELSE 0

\* A slip that inserts one copy per vehicle instead of one per extra vehicle.
create_matrix_OneTooMany(m, k) ==
    LET widened == [i \in DOMAIN m |-> Rep(m[i][1], Range(k)) \o m[i]]
    IN  Rep(widened[1], Range(k)) \o widened

\* app.py:509-521  every row gets its first item inserted k-1 times at the
\* front, then the (widened) first row is inserted k-1 times at the front.
create_matrix_according_to_vehicle_count(m, k) ==
    LET widened == [i \in DOMAIN m |-> Rep(m[i][1], Range(k - 1)) \o m[i]]
    IN  Rep(widened[1], Range(k - 1)) \o widened

\* A slip that keeps only the added 80%.
increase_durations_OnlyIncrement(m) ==
    [i \in DOMAIN m |->
        [j \in DOMAIN m[i] |->
            IF m[i][j] # 0 THEN RoundHalfEven(8 * m[i][j]) ELSE m[i][j]]]

\* A slip that inflates by 8% instead of 80%.
increase_durations_EightPercent(m) ==
    [i \in DOMAIN m |->
        [j \in DOMAIN m[i] |->
            IF m[i][j] # 0
            THEN RoundHalfEven((100 * m[i][j] + 8 * m[i][j]) \div 10)
            ELSE m[i][j]]]

\* app.py:523-538  round(i + (i * 0.8), 1) for every i != 0.  With i in
\* tenths, i + i*0.8 is 18*i hundredths; round(_, 1) brings it to tenths.
increase_durations_by_percentage(m) ==
    [i \in DOMAIN m |->
        [j \in DOMAIN m[i] |->
            IF m[i][j] # 0
            THEN RoundHalfEven(10 * m[i][j] + 8 * m[i][j])
            ELSE m[i][j]]]

(***************************************************************************)
(* Location lookups.  A Location is identified by its coordinate pair      *)
(* (location.py:62-68); the model numbers the coordinate pairs: 0 is the   *)
(* depot's, c is customer c's.  The plan's location list is the vehicles'  *)
(* depots followed by the customers (route_plan.py:69-71).                 *)
(***************************************************************************)
DepotCoordinate == 0

\* route_plan.py:69-71: the depots' coordinates, then the customers'.
LocationCoordinates(k, n) == Rep(DepotCoordinate, k) \o SubSeq(location, 1, n)

\* The coordinates of a request whose n customers are all at different
\* places.
DistinctLocations(n) == [c \in 1..n |-> c]

\* The coordinates of a request whose n customers are all at the place of
\* the first.
SharedLocations(n) == [c \in 1..n |-> 1]

\* The value the dict built in the inner loop ends with for a key: the one
\* written last.
LastIndexOf(coords, c) ==
    CHOOSE j \in DOMAIN coords :
        coords[j] = c /\ \A j2 \in DOMAIN coords : j2 > j => coords[j2] # c

\* A slip that reads the matrix transposed.
update_locations_Transposed(coords, m) ==
    [i \in DOMAIN coords |->
        [c \in {coords[j] : j \in DOMAIN coords} |->
            LET j == LastIndexOf(coords, c)
            IN  IF j <= Len(m) /\ i <= Len(m[j]) THEN m[j][i] ELSE 0]]

\* A slip that fills a missing entry with the clamp's 60.0 instead of 0.
update_locations_PadsWith60(coords, m) ==
    [i \in DOMAIN coords |->
        [c \in {coords[j] : j \in DOMAIN coords} |->
            LET j == LastIndexOf(coords, c)
            IN  IF i <= Len(m) /\ j <= Len(m[i]) THEN m[i][j] ELSE 600]]

\* duration_distance_service.py:105-117 and 142-154 with
\* location.py:43-54: location i's map gets, for every location j, the
\* matrix entry [i][j], or 0 when the matrix has no such entry.
update_locations(coords, m) ==
    [i \in DOMAIN coords |->
        [c \in {coords[j] : j \in DOMAIN coords} |->
            LET j == LastIndexOf(coords, c)
            IN  IF i <= Len(m) /\ j <= Len(m[i]) THEN m[i][j] ELSE 0]]

\* Location.__init__, location.py:13-24: both maps start empty.
NoLookups(k, n) == [i \in 1..(k + n) |-> <<>>]

\* location.py:35-36  round(self.driving_time_seconds_map[(lon, lat)])
driving_time_to(from, coord) ==
    RoundHalfEven(driving_time_seconds_map[from][coord])

\* location.py:38-41
driving_distance_to(from, coord) ==
    RoundHalfEven(driving_distance_meters_map[from][coord])

(***************************************************************************)
(* The entity graph: Vehicle and Customer of customer_vehicle.py.          *)
(* Vehicles are 1..k and visits 1..n; vehicle v's depot is location v of   *)
(* the plan's location list and visit c is location k + c.                 *)
(***************************************************************************)
\* app.py:313  timedelta(seconds=600): every visit's service_duration.
service_duration == 600

\* Customer.location as a coordinate.
CoordinateOf(c) == location[c]

\* The index of visit c's Location in the plan's location list.
LocationOf(c) == Len(customers) + c

\* customer_vehicle.py:57-82 Field(default=None): a fresh Customer has no
\* vehicle, no neighbours and no arrival time.
NoLinks(n) == [c \in 1..n |-> None]

\* customer_vehicle.py:126-129
Customer_departure_time(arr, c) ==
    IF arr[c] = None THEN None ELSE arr[c] + service_duration

(***************************************************************************)
(* json_to_vehicle_route_plan, step by step (app.py:571-622).              *)
(***************************************************************************)
\* The durations a request may carry, in tenths of a second: 0, 2.5 (rounds
\* to 2, the even neighbour), 50 (below the clamp) and 62.5 (rounds to 62).
RawDurationValues == {0, 25, 500, 625}

\* An N x N raw duration matrix, ordered [depot, customers...], whose
\* self-durations are 0.
RawDurationMatrices(N) ==
    {m \in [1..N -> [1..N -> RawDurationValues]] : \A i \in 1..N : m[i][i] = 0}

\* An N x N raw distance matrix with pairwise different off-diagonal
\* entries, none a whole number of metres and some below 60.
SampleDistances(N) ==
    [i \in 1..N |-> [j \in 1..N |-> IF i = j THEN 0 ELSE 100 * i + 35 * j + 2]]

\* The same for durations.
SampleDurations(N) ==
    [i \in 1..N |-> [j \in 1..N |-> IF i = j THEN 0 ELSE 1000 * i + 125 * j]]

\* No get_route call has answered since the last operation.
NoResponse == [status |-> "none", vehicles |-> <<>>]

\* app.py:62: the registry starts empty, and the event loop runs nothing.
RegistryIdle ==
    /\ data_sets = <<>>
    /\ issued = 0
    /\ running = [handler |-> "none", id |-> 0]
    /\ answer = [handler |-> "none", id |-> 0, value |-> "none"]
    /\ cleared = {}

\* Before the entities are built there is no Customer object.
NoEntities ==
    /\ vehicle = <<>>
    /\ previous_customer = <<>>
    /\ next_customer = <<>>
    /\ arrival_time = <<>>
    /\ last_move = "none"
    /\ plan_customers = <<>>
    /\ response = NoResponse
    /\ RegistryIdle

\* A request arrives: k vehicles, none with customers yet, n customers, and
\* the provider's matrices for N locations.  N = n + 1 is the well-formed
\* case; N = n is a matrix one location short.
InitPipeline ==
    /\ pc = "request"
    /\ number_of_vehicles \in 0..MaxVehicles
    /\ \E N \in 1..(MaxMatrixCustomers + 1) :
        /\ request_durations \in RawDurationMatrices(N)
        /\ request_distances = SampleDistances(N)
        /\ number_of_customers \in {N - 1, N}
    /\ durations = request_durations
    /\ distances = request_distances
    /\ request_vehicle = NoLinks(number_of_customers)
    /\ request_service_duration = service_duration
    /\ location = DistinctLocations(number_of_customers)
    /\ driving_time_seconds_map = <<>>
    /\ driving_distance_meters_map = <<>>
    /\ phase = "request"
    /\ customers = [v \in 1..number_of_vehicles |-> <<>>]
    /\ departure_time = [v \in 1..number_of_vehicles |-> 0]
    /\ NoEntities

\* app.py:571-575
RoundDurations ==
    /\ pc = "request"
    /\ durations' = round_durations(durations)
    /\ pc' = "rounded"
    /\ UNCHANGED registryVars /\ UNCHANGED <<distances, number_of_vehicles, number_of_customers,
                   request_durations, request_distances, request_vehicle,
                   request_service_duration,
                   lookupVars, planVars>>

\* app.py:576
ModifyDurationMatrix ==
    /\ pc = "rounded"
    /\ durations' = modify_duration_matrix(durations)
    /\ pc' = "clamped"
    /\ UNCHANGED registryVars /\ UNCHANGED <<distances, number_of_vehicles, number_of_customers,
                   request_durations, request_distances, request_vehicle,
                   request_service_duration,
                   lookupVars, planVars>>

\* app.py:577-578
DuplicateDurations ==
    /\ pc = "clamped"
    /\ durations' =
        create_matrix_according_to_vehicle_count(durations, number_of_vehicles)
    /\ pc' = "durations_duplicated"
    /\ UNCHANGED registryVars /\ UNCHANGED <<distances, number_of_vehicles, number_of_customers,
                   request_durations, request_distances, request_vehicle,
                   request_service_duration,
                   lookupVars, planVars>>

\* app.py:579
DuplicateDistances ==
    /\ pc = "durations_duplicated"
    /\ distances' =
        create_matrix_according_to_vehicle_count(distances, number_of_vehicles)
    /\ pc' = "duplicated"
    /\ UNCHANGED registryVars /\ UNCHANGED <<durations, number_of_vehicles, number_of_customers,
                   request_durations, request_distances, request_vehicle,
                   request_service_duration,
                   lookupVars, planVars>>

\* app.py:581
IncreaseDurations ==
    /\ pc = "duplicated"
    /\ durations' = increase_durations_by_percentage(durations)
    /\ pc' = "inflated"
    /\ UNCHANGED registryVars /\ UNCHANGED <<distances, number_of_vehicles, number_of_customers,
                   request_durations, request_distances, request_vehicle,
                   request_service_duration,
                   lookupVars, planVars>>

\* app.py:583-622 and VehicleRoutePlan.__init__, route_plan.py:66-78: the
\* entities are built, and when the plan has customers every location gets
\* its lookups from the matrices.  Nothing compares the matrices' size with
\* the number of locations, and the Customer objects are built without
\* vehicle, previousVisit and nextVisit (app.py:593-601).
ConstructPlan ==
    /\ pc = "inflated"
    /\ IF \E v \in DOMAIN customers : \E i \in DOMAIN customers[v] :
            customers[v][i] \notin 1..number_of_customers
       THEN \* app.py:615: customers[customer_id] raises KeyError for an id
            \* that no customer of the request carries.
            /\ pc' = "rejected"
            /\ UNCHANGED registryVars /\ UNCHANGED <<durations, distances, number_of_vehicles,
                           number_of_customers, request_durations,
                           request_distances, request_vehicle,
                           request_service_duration, lookupVars,
                           planVars>>
       ELSE LET k == number_of_vehicles
                n == number_of_customers
                coords == LocationCoordinates(k, n)
            IN  /\ pc' = "constructed"
                /\ driving_time_seconds_map' =
                     IF n > 0 THEN update_locations(coords, durations)
                     ELSE NoLookups(k, n)
                /\ driving_distance_meters_map' =
                     IF n > 0 THEN update_locations(coords, distances)
                     ELSE NoLookups(k, n)
                /\ phase' = "constructed"
                \* app.py:593-601: the vehicle a customer names is deleted.
                /\ request_vehicle' = NoLinks(n)
                \* app.py:613-616: each id of a vehicle's list is replaced
                \* by the Customer object of that id, duplicates and all.
                /\ customers' = customers
                /\ departure_time' = departure_time
                /\ vehicle' = NoLinks(n)
                /\ previous_customer' = NoLinks(n)
                /\ next_customer' = NoLinks(n)
                /\ arrival_time' = NoLinks(n)
                /\ last_move' = "construct"
                /\ location' = location
                /\ plan_customers' = [c \in 1..n |-> c]
                /\ response' = NoResponse
                /\ UNCHANGED registryVars /\ UNCHANGED <<durations, distances, number_of_vehicles,
                               number_of_customers, request_durations,
                               request_distances, request_service_duration>>

NextPipeline ==
    \/ RoundDurations
    \/ ModifyDurationMatrix
    \/ DuplicateDurations
    \/ DuplicateDistances
    \/ IncreaseDurations
    \/ ConstructPlan

SpecPipeline == InitPipeline /\ [][NextPipeline]_vars

(***************************************************************************)
(* Claims about the preprocessing pipeline (checked under SpecPipeline).   *)
(***************************************************************************)
\* The number of rows and columns the duplication step adds.
Added == Range(number_of_vehicles - 1)

\* The row (column) of the request's matrix that row (column) i of the
\* duplicated matrix was copied from.
OriginalIndex(i) == IF i <= Added THEN 1 ELSE i - Added

Preprocessed == pc \in {"inflated", "constructed"}

\* C6: after round, clamp, duplication and inflation, every entry of the
\* duration matrix is 0 or at least 60 seconds, and every entry that was 0
\* in the request is still 0.
C6_NoNonzeroDurationBelow60 ==
    Preprocessed =>
        \A i \in DOMAIN durations : \A j \in DOMAIN durations[i] :
            /\ durations[i][j] = 0 \/ durations[i][j] >= 600
            /\ request_durations[OriginalIndex(i)][OriginalIndex(j)] = 0
                => durations[i][j] = 0

\* A preprocessed matrix for two vehicles in which a raw duration below 60
\* seconds was raised and a raw 0 was kept.
C6_Witness ==
    /\ Preprocessed
    /\ number_of_vehicles = 2
    /\ \E i \in DOMAIN request_durations : \E j \in DOMAIN request_durations[i] :
        /\ request_durations[i][j] \in {25, 500}
        /\ durations[i + Added][j + Added] = 1080
    /\ \E i \in DOMAIN durations : \E j \in DOMAIN durations[i] :
        i # j /\ durations[i][j] = 0

\* The distances the request gave, copied to where duplication put them.
DistancesAsRequested ==
    IF pc \in {"request", "rounded", "clamped", "durations_duplicated"}
    THEN distances = request_distances
    ELSE \A i \in DOMAIN distances : \A j \in DOMAIN distances[i] :
            distances[i][j] =
                request_distances[OriginalIndex(i)][OriginalIndex(j)]

\* C7: the inflation step turns every entry c of the duplicated duration
\* matrix into 1.8 * c (exact to one decimal: 10 * final = 18 * c in
\* tenths), 0 staying 0; the distances are at every step the request's own
\* values, neither scaled nor clamped nor rounded.
C7_InflationBy18Tenths ==
    [][ /\ (pc = "duplicated" /\ pc' = "inflated") =>
            /\ DOMAIN durations' = DOMAIN durations
            /\ \A i \in DOMAIN durations :
                /\ DOMAIN durations'[i] = DOMAIN durations[i]
                /\ \A j \in DOMAIN durations[i] :
                    10 * durations'[i][j] = 18 * durations[i][j]
        /\ DistancesAsRequested'
      ]_vars

\* An inflated matrix for two vehicles holding 111.6 (= 62 * 1.8, from a
\* raw 62.5) and a 0 off the diagonal.
C7_Witness ==
    /\ pc = "inflated"
    /\ number_of_vehicles = 2
    /\ \E i \in DOMAIN durations : \E j \in DOMAIN durations[i] :
        durations[i][j] = 1116
    /\ \E i \in DOMAIN durations : \E j \in DOMAIN durations[i] :
        i # j /\ durations[i][j] = 0
    /\ \E i \in DOMAIN distances : \E j \in DOMAIN distances[i] :
        distances[i][j] = 172

\* What create_matrix_according_to_vehicle_count promises of its result
\* new for the matrix old and k vehicles.
Duplicated(old, new, k) ==
    LET N == Len(old)
        s == IF k >= 1 THEN k - 1 ELSE 0
        from(i) == IF i <= s THEN 1 ELSE i - s
    IN  /\ Len(new) = N + s
        /\ \A i \in 1..(N + s) : Len(new[i]) = N + s
        /\ k >= 1 =>
            /\ \A i \in 1..k : \A j \in 1..(N + s) : new[i][j] = old[1][from(j)]
            /\ \A j \in 1..k : \A i \in 1..(N + s) : new[i][j] = old[from(i)][1]
        /\ k <= 1 => new = old

Example1 ==
    /\ request_durations = <<<<0, 500>>, <<500, 0>>>>
    /\ number_of_vehicles = 1

\* C9 as amended: for Example 1 the matrix is [[0,60],[60,0]] after the
\* clamp and after the duplication, and the final matrix, after the
\* inflation, is [[0,108],[108,0]].
C9_Example1Final108 ==
    Example1 =>
        /\ pc \in {"clamped", "durations_duplicated", "duplicated"} =>
            durations = <<<<0, 600>>, <<600, 0>>>>
        /\ Preprocessed => durations = <<<<0, 1080>>, <<1080, 0>>>>

\* C9 as claimed: the final matrix of Example 1 is [[0,60],[60,0]].
C9_Example1Final60 ==
    Example1 =>
        /\ pc \in {"clamped", "durations_duplicated", "duplicated"} =>
            durations = <<<<0, 600>>, <<600, 0>>>>
        /\ Preprocessed => durations = <<<<0, 600>>, <<600, 0>>>>

\* Example 1 has gone through the whole pipeline.
C9_Witness == Example1 /\ pc = "inflated"

\* C10: a plan is constructed only from matrices that have one row and one
\* column per plan location (the vehicles' depots and the customers);
\* anything else is rejected before construction.
C10_MismatchedMatrixRejected ==
    pc = "constructed" =>
        LET expected == number_of_vehicles + number_of_customers
        IN  /\ Len(durations) = expected
            /\ Len(distances) = expected
            /\ \A i \in DOMAIN durations : Len(durations[i]) = expected
            /\ \A i \in DOMAIN distances : Len(distances[i]) = expected

\* Every plan location's lookup map m has an entry for every plan
\* location's coordinates, and the entry for a pair of positions outside
\* the matrix M is 0.
ZeroPadded(m, M) ==
    LET coords == LocationCoordinates(number_of_vehicles, number_of_customers)
    IN  /\ DOMAIN m = DOMAIN coords
        /\ \A i \in DOMAIN coords :
            /\ DOMAIN m[i] = {coords[j] : j \in DOMAIN coords}
            /\ \A j \in DOMAIN coords :
                (i > Len(M) \/ j > Len(M[i])) => m[i][coords[j]] = 0

\* C11: construction of a plan from preprocessed matrices always completes,
\* and when the plan has at least one visit every ordered pair of plan
\* locations has a travel time and a distance, which are 0 for every pair
\* whose position lies outside the duration (distance) matrix.
C11_MissingEntriesAreZero ==
    [][pc = "inflated" =>
        /\ pc' = "constructed"
        /\ number_of_customers > 0 =>
            /\ ZeroPadded(driving_time_seconds_map', durations)
            /\ ZeroPadded(driving_distance_meters_map', distances)
      ]_vars

\* A plan of two vehicles and one visit built over matrices that lack the
\* visit's row and column: the visit's entries are 0, the depots' own
\* entries come from the matrix.
C11_Witness ==
    /\ pc = "constructed"
    /\ number_of_vehicles = 2
    /\ number_of_customers = 1
    /\ Len(durations) = 2
    /\ driving_time_seconds_map[1][1] = 0
    /\ driving_time_seconds_map[3][DepotCoordinate] = 0
    /\ driving_distance_meters_map[1][1] = 0

(***************************************************************************)
(* The plan under the solver.  solver.solve(route) (app.py:721) hands the  *)
(* plan to the engine, which owns every structural change: it edits the    *)
(* planning list variable Vehicle.customers (customer_vehicle.py:196-202), *)
(* sets the shadow variables vehicle, previous_customer and next_customer  *)
(* that the model declares on it (customer_vehicle.py:57-77), and calls    *)
(* update_arrival_time, the cascading update of arrival_time               *)
(* (customer_vehicle.py:78-97), from the first visit whose position        *)
(* changed along the next links, and on every visit that lost its vehicle. *)
(***************************************************************************)
Visits == DOMAIN vehicle
VehicleIds == 1..number_of_vehicles

\* The departure times a request may give its vehicles (s).
DepartureTimes == {0, 900}

SeqsUpTo(S, n) == UNION {[1..m -> S] : m \in 0..n}

Assigned(lists) == {lists[v][i] : <<v, i>> \in
                        {<<v, i>> \in VehicleIds \X Visits :
                            v \in DOMAIN lists /\ i \in DOMAIN lists[v]}}

\* No visit is listed twice: the engine's contract for a list variable.
NoDuplicates(lists) ==
    \A v1, v2 \in DOMAIN lists :
        \A i \in DOMAIN lists[v1] : \A j \in DOMAIN lists[v2] :
            lists[v1][i] = lists[v2][j] => (v1 = v2 /\ i = j)

\* InverseRelationShadowVariable, customer_vehicle.py:57-63
VehicleOf(lists, c) ==
    IF \E v \in DOMAIN lists : \E i \in DOMAIN lists[v] : lists[v][i] = c
    THEN CHOOSE v \in DOMAIN lists : \E i \in DOMAIN lists[v] : lists[v][i] = c
    ELSE None

IndexOf(seq, c) == CHOOSE i \in DOMAIN seq : seq[i] = c

\* PreviousElementShadowVariable, customer_vehicle.py:64-70
PreviousOf(lists, c) ==
    LET v == VehicleOf(lists, c)
    IN  IF v = None THEN None
        ELSE IF IndexOf(lists[v], c) = 1 THEN None
        ELSE lists[v][IndexOf(lists[v], c) - 1]

\* NextElementShadowVariable, customer_vehicle.py:71-77
NextOf(lists, c) ==
    LET v == VehicleOf(lists, c)
    IN  IF v = None THEN None
        ELSE IF IndexOf(lists[v], c) = Len(lists[v]) THEN None
        ELSE lists[v][IndexOf(lists[v], c) + 1]

\* A slip that leaves the arrival time of a visit without vehicle as it is.
update_arrival_time_KeepsUnassigned(veh, prev, arr, c) ==
    IF veh[c] = None THEN arr[c]
    ELSE IF prev[c] # None /\ arr[prev[c]] = None THEN None
    ELSE IF prev[c] = None
    THEN departure_time[veh[c]] + driving_time_to(veh[c], CoordinateOf(c))
    ELSE Customer_departure_time(arr, prev[c])
            + driving_time_to(LocationOf(prev[c]), CoordinateOf(c))
            + service_duration

\* A slip that adds the first leg to the arrival time the visit already has.
update_arrival_time_Accumulates(veh, prev, arr, c) ==
    IF veh[c] = None \/ (prev[c] # None /\ arr[prev[c]] = None) THEN None
    ELSE IF prev[c] = None
    THEN (IF arr[c] = None THEN departure_time[veh[c]] ELSE arr[c])
            + driving_time_to(veh[c], CoordinateOf(c))
    ELSE Customer_departure_time(arr, prev[c])
            + driving_time_to(LocationOf(prev[c]), CoordinateOf(c))
            + service_duration

\* customer_vehicle.py:84-97: the arrival time update_arrival_time gives
\* visit c, with the links veh and prev and the arrival times arr.  The
\* last branch adds previous_customer.service_duration.seconds to
\* previous_customer.departure_time(), which already holds it.
update_arrival_time(veh, prev, arr, c) ==
    IF veh[c] = None \/ (prev[c] # None /\ arr[prev[c]] = None) THEN None
    ELSE IF prev[c] = None
    THEN departure_time[veh[c]] + driving_time_to(veh[c], CoordinateOf(c))
    ELSE Customer_departure_time(arr, prev[c])
            + driving_time_to(LocationOf(prev[c]), CoordinateOf(c))
            + service_duration

\* The cascade along one vehicle's chain, from position i to its end.
RECURSIVE update_chain(_, _, _, _, _)
update_chain(veh, prev, arr, chain, i) ==
    IF i > Len(chain) THEN arr
    ELSE update_chain(veh, prev,
            [arr EXCEPT ![chain[i]] = update_arrival_time(veh, prev, arr, chain[i])],
            chain, i + 1)

\* The cascade along the chains of vehicles v..k, each from start[v].
RECURSIVE update_chains(_, _, _, _, _, _)
update_chains(veh, prev, arr, lists, start, v) ==
    IF v > Len(lists) THEN arr
    ELSE update_chains(veh, prev,
            update_chain(veh, prev, arr, lists[v], start[v]),
            lists, start, v + 1)

\* A slip that forgets every arrival time before the pass.
recompute_ClearsFirst(veh, prev, arr, lists, start, dirty) ==
    update_chains(veh, prev, [c \in DOMAIN arr |-> None], lists, start, 1)

\* The recompute pass: update_arrival_time on the visits of dirty (those
\* that lost their vehicle), then along every chain from start.
recompute(veh, prev, arr, lists, start, dirty) ==
    update_chains(veh, prev,
        [c \in DOMAIN arr |->
            IF c \in dirty THEN update_arrival_time(veh, prev, arr, c) ELSE arr[c]],
        lists, start, 1)

\* The first position at which the chain new differs from old.
FirstChanged(old, new) ==
    IF \E i \in DOMAIN new : i > Len(old) \/ old[i] # new[i]
    THEN CHOOSE i \in DOMAIN new :
            /\ i > Len(old) \/ old[i] # new[i]
            /\ \A j \in 1..(i - 1) : old[j] = new[j]
    ELSE Len(new) + 1

InsertAt(seq, i, x) == SubSeq(seq, 1, i - 1) \o <<x>> \o SubSeq(seq, i, Len(seq))
RemoveAt(seq, i) == SubSeq(seq, 1, i - 1) \o SubSeq(seq, i + 1, Len(seq))

\* Every leg of the chains has its travel time: the source location's map
\* has the destination's coordinates as a key (location.py:36 raises
\* KeyError otherwise).
LegsDefined(lists) ==
    \A v \in DOMAIN lists : \A i \in DOMAIN lists[v] :
        CoordinateOf(lists[v][i]) \in
            DOMAIN driving_time_seconds_map[
                IF i = 1 THEN v ELSE LocationOf(lists[v][i - 1])]

\* One move of the engine: the lists become new, the link shadow variables
\* follow them, and the recompute pass runs before anything reads the plan.
\* When update_arrival_time raises, so does solver.solve, and no plan comes
\* back from it.
ApplyMove(new, name) ==
    IF LegsDefined(new)
    THEN LET veh == [c \in Visits |-> VehicleOf(new, c)]
             prev == [c \in Visits |-> PreviousOf(new, c)]
             start == [v \in VehicleIds |-> FirstChanged(customers[v], new[v])]
             dirty == {c \in Visits : vehicle[c] # None /\ veh[c] = None}
         IN  /\ customers' = new
             /\ vehicle' = veh
             /\ previous_customer' = prev
             /\ next_customer' = [c \in Visits |-> NextOf(new, c)]
             /\ arrival_time' =
                    recompute(veh, prev, arrival_time, new, start, dirty)
             /\ last_move' = name
             /\ response' = NoResponse
             /\ UNCHANGED registryVars /\ UNCHANGED <<pipelineVars, lookupVars, phase, departure_time,
                            location, plan_customers>>
    ELSE /\ phase' = "failed"
         /\ last_move' = "error"
         /\ response' = NoResponse
         /\ UNCHANGED registryVars /\ UNCHANGED <<pipelineVars, lookupVars, customers, departure_time,
                        vehicle, previous_customer, next_customer,
                        arrival_time, location, plan_customers>>

\* solver.solve(route), app.py:721: the engine takes the plan as its
\* working solution and initialises every shadow variable from the lists.
\* A plan that lists a visit twice breaks the engine's contract; what the
\* engine does with it is not this repository's code, and the model stops.
StartSolving ==
    /\ phase = "constructed"
    /\ NoDuplicates(customers)
    /\ phase' = "solving"
    /\ LET veh == [c \in Visits |-> VehicleOf(customers, c)]
           prev == [c \in Visits |-> PreviousOf(customers, c)]
       IN  /\ vehicle' = veh
           /\ previous_customer' = prev
           /\ next_customer' = [c \in Visits |-> NextOf(customers, c)]
           /\ arrival_time' = recompute(veh, prev, arrival_time, customers,
                                        [v \in VehicleIds |-> 1], Visits)
    /\ last_move' = "start"
    /\ response' = NoResponse
    /\ UNCHANGED registryVars /\ UNCHANGED <<pipelineVars, lookupVars, customers, departure_time,
                   location, plan_customers>>

\* Assign: a visit without vehicle enters a vehicle's list.
AssignVisit ==
    /\ phase = "solving"
    /\ \E c \in Visits \ Assigned(customers) : \E v \in VehicleIds :
        \E i \in 1..(Len(customers[v]) + 1) :
            ApplyMove([customers EXCEPT ![v] = InsertAt(@, i, c)], "assign")

\* Unassign: a visit leaves its vehicle's list.
UnassignVisit ==
    /\ phase = "solving"
    /\ \E v \in VehicleIds : \E i \in DOMAIN customers[v] :
        ApplyMove([customers EXCEPT ![v] = RemoveAt(@, i)], "unassign")

\* Reorder: a visit moves to another position of its vehicle's list.
ReorderVisit ==
    /\ phase = "solving"
    /\ \E v \in VehicleIds : \E i, j \in DOMAIN customers[v] :
        /\ i # j
        /\ ApplyMove([customers EXCEPT
                        ![v] = InsertAt(RemoveAt(@, i), j, customers[v][i])],
                     "reorder")

\* Move between vehicles: a visit leaves one list and enters another.
TransferVisit ==
    /\ phase = "solving"
    /\ \E v1, v2 \in VehicleIds : \E i \in DOMAIN customers[v1] :
        \E j \in 1..(Len(customers[v2]) + 1) :
            /\ v1 # v2
            /\ ApplyMove([customers EXCEPT
                            ![v1] = RemoveAt(@, i),
                            ![v2] = InsertAt(@, j, customers[v1][i])],
                         "transfer")

\* The recompute pass over every chain, with no structural change.
RecomputeAll ==
    /\ phase = "solving"
    /\ arrival_time' = recompute(vehicle, previous_customer, arrival_time,
                                 customers, [v \in VehicleIds |-> 1],
                                 Visits \ Assigned(customers))
    /\ last_move' = "recompute"
    /\ response' = NoResponse
    /\ UNCHANGED registryVars /\ UNCHANGED <<pipelineVars, lookupVars, phase, customers, departure_time,
                   vehicle, previous_customer, next_customer, location,
                   plan_customers>>

(***************************************************************************)
(* Read-only projections and aggregates of customer_vehicle.py and         *)
(* route_plan.py, evaluated on the current plan.                           *)
(***************************************************************************)
\* The outcome of an evaluation that raises an exception.
Error == -2

\* Customer.ready_time and Customer.due_time of the sample request (s).
ready_time(c) == 300 * c
due_time(c) == 1500 + 300 * c

\* Vehicle.mileage of the sample request.
mileage(v) == 2 * v + 1

Max(a, b) == IF a >= b THEN a ELSE b

\* Python's a // b on integers: the floor of the quotient.
FloorDiv(a, b) == IF b > 0 THEN a \div b ELSE (-a) \div (-b)

\* customer_vehicle.py:99-102
departureTime(c) == Customer_departure_time(arrival_time, c)

\* customer_vehicle.py:104-110
startServiceTime(c) ==
    IF arrival_time[c] = None THEN None
    ELSE Max(ready_time(c), arrival_time[c])

\* customer_vehicle.py:119-124 with 141-146
drivingTimeSecondsToDepot(c) ==
    IF vehicle[c] = None THEN None
    ELSE IF DepotCoordinate \notin DOMAIN driving_time_seconds_map[LocationOf(c)]
    THEN Error
    ELSE driving_time_to(LocationOf(c), DepotCoordinate)

\* customer_vehicle.py:134-139: -((departure - due) // timedelta(minutes=-1))
get_service_finished_delay_in_minutes(c) ==
    IF arrival_time[c] = None THEN 0
    ELSE -FloorDiv(departureTime(c) - due_time(c), -60)

\* customer_vehicle.py:204-213.  last_customer.departureTime is None when
\* the last customer has no arrival time, and None + timedelta raises
\* TypeError; a missing lookup key raises KeyError.
Vehicle_arrival_time(v) ==
    IF Len(customers[v]) = 0 THEN departure_time[v]
    ELSE LET last_customer == customers[v][Len(customers[v])]
         IN  IF departureTime(last_customer) = None THEN Error
             ELSE IF DepotCoordinate \notin
                        DOMAIN driving_time_seconds_map[LocationOf(last_customer)]
             THEN Error
             ELSE departureTime(last_customer)
                    + driving_time_to(LocationOf(last_customer), DepotCoordinate)

\* customer_vehicle.py:242-259: the loop without the minute per order.
RECURSIVE driving_time_loop_without_pitstop(_, _, _, _)
driving_time_loop_without_pitstop(v, i, total, previous_location) ==
    IF i > Len(customers[v])
    THEN total + driving_time_to(previous_location, DepotCoordinate)
    ELSE driving_time_loop_without_pitstop(v, i + 1,
            total + driving_time_to(previous_location,
                                    CoordinateOf(customers[v][i]))
                  + service_duration,
            LocationOf(customers[v][i]))

\* A slip that calls the variant without the minute per order.
calculate_total_driving_time_WithoutPitStop(v) ==
    IF Len(customers[v]) = 0 THEN 0
    ELSE driving_time_loop_without_pitstop(v, 1, 0, v)

\* customer_vehicle.py:267-278: the loop over the visits and the leg back.
RECURSIVE driving_time_loop(_, _, _, _)
driving_time_loop(v, i, total, previous_location) ==
    IF i > Len(customers[v])
    THEN total + driving_time_to(previous_location, DepotCoordinate)
    ELSE driving_time_loop(v, i + 1,
            total + driving_time_to(previous_location,
                                    CoordinateOf(customers[v][i]))
                  + service_duration + 60,
            LocationOf(customers[v][i]))

\* customer_vehicle.py:261-280
calculate_total_driving_time_seconds(v) ==
    IF Len(customers[v]) = 0 THEN 0 ELSE driving_time_loop(v, 1, 0, v)

\* customer_vehicle.py:288-296
RECURSIVE driving_distance_loop(_, _, _, _)
driving_distance_loop(v, i, total, previous_location) ==
    IF i > Len(customers[v])
    THEN total + driving_distance_to(previous_location, DepotCoordinate)
    ELSE driving_distance_loop(v, i + 1,
            total + driving_distance_to(previous_location,
                                        CoordinateOf(customers[v][i])),
            LocationOf(customers[v][i]))

\* customer_vehicle.py:282-297
calculate_total_driving_distance_meters(v) ==
    IF Len(customers[v]) = 0 THEN 0 ELSE driving_distance_loop(v, 1, 0, v)

\* customer_vehicle.py:311-314: int(distance / mileage); both are positive
\* here, so int() truncates to the floor.
total_fuel_litre(v) == calculate_total_driving_distance_meters(v) \div mileage(v)

\* out = 0; for x in xs: out += f(x), for the vehicles 1..k.
RECURSIVE SumVehicles(_, _)
SumVehicles(f, k) == IF k = 0 THEN 0 ELSE SumVehicles(f, k - 1) + f[k]

\* A slip that leaves the customers' service durations out.
total_driving_time_seconds_VehiclesOnly ==
    SumVehicles([v \in VehicleIds |-> calculate_total_driving_time_seconds(v)],
                number_of_vehicles)

\* route_plan.py:80-91
total_driving_time_seconds ==
    SumVehicles([v \in VehicleIds |-> calculate_total_driving_time_seconds(v)],
                number_of_vehicles)
        + Len(plan_customers) * service_duration

\* route_plan.py:93-99
total_driving_distance_meters ==
    SumVehicles([v \in VehicleIds |-> calculate_total_driving_distance_meters(v)],
                number_of_vehicles)

\* route_plan.py:101-107
total_fuel_liter ==
    SumVehicles([v \in VehicleIds |-> total_fuel_litre(v)], number_of_vehicles)

(***************************************************************************)
(* The read projection: get_route (app.py:96-164).                         *)
(***************************************************************************)
\* The registry holds a plan: the one built, or the one being solved.
PlanBuilt == phase \in {"constructed", "solving"}

\* A slip that leaves out app.py:90, so a shifted vehicle keeps its solved
\* arrival time.
RECURSIVE update_vehicles_loop_KeepsArrival(_, _)
update_vehicles_loop_KeepsArrival(vehicles, i) ==
    IF i > Len(vehicles) THEN vehicles
    ELSE update_vehicles_loop_KeepsArrival(
            [vehicles EXCEPT
                ![i] = [departureTime |-> vehicles[i - 1].arrival_time + 60,
                        arrival_time |-> vehicles[i].arrival_time]],
            i + 1)

update_vehicles_KeepsArrival(vehicles) ==
    update_vehicles_loop_KeepsArrival(vehicles, 2)

\* app.py:87-90: the loop body for vehicles[i], i counted from 1, on the
\* list the earlier iterations have already changed.
RECURSIVE update_vehicles_loop(_, _)
update_vehicles_loop(vehicles, i) ==
    IF i > Len(vehicles) THEN vehicles
    ELSE LET time_diff == vehicles[i].arrival_time - vehicles[i].departureTime
             departure == vehicles[i - 1].arrival_time + 60
         IN  update_vehicles_loop(
                [vehicles EXCEPT
                    ![i] = [departureTime |-> departure,
                            arrival_time |-> departure + time_diff]],
                i + 1)

\* app.py:85-93
update_vehicles_departure_and_arrival_time(vehicles) ==
    update_vehicles_loop(vehicles, 2)

\* app.py:121 and 142: route.dict() evaluates every computed field; a
\* vehicle's entry holds its departure_time and its arrival_time.
route_dict_vehicles ==
    [v \in VehicleIds |-> [departureTime |-> departure_time[v],
                           arrival_time |-> Vehicle_arrival_time(v)]]

\* The answer of get_route for the current plan: the projection, or the
\* exception a computed field raised.
get_route_response ==
    IF \E v \in VehicleIds : Vehicle_arrival_time(v) = Error
    THEN [status |-> "error", vehicles |-> <<>>]
    ELSE [status |-> "ok",
          vehicles |->
            update_vehicles_departure_and_arrival_time(route_dict_vehicles)]

\* A slip that copies the staggered times back into the registered plan.
GetRoute_WritesBack ==
    /\ PlanBuilt
    /\ response' = get_route_response
    /\ departure_time' =
        IF response'.status = "ok"
        THEN [v \in VehicleIds |-> response'.vehicles[v].departureTime]
        ELSE departure_time
    /\ UNCHANGED registryVars /\ UNCHANGED <<pipelineVars, lookupVars, phase, customers, vehicle,
                   previous_customer, next_customer, arrival_time, last_move,
                   location, plan_customers>>

\* get_route, app.py:96-164: the plan of the registry (there from
\* app.py:717 on) is copied into a dict, which alone is renamed and
\* staggered.
GetRoute ==
    /\ PlanBuilt
    /\ response' = get_route_response
    /\ UNCHANGED registryVars /\ UNCHANGED <<pipelineVars, lookupVars, phase, customers, departure_time,
                   vehicle, previous_customer, next_customer, arrival_time,
                   last_move, location, plan_customers>>

\* The preprocessing of a sample request, as json_to_vehicle_route_plan
\* composes it (app.py:572-581).
PreprocessedDurations(m, k) ==
    increase_durations_by_percentage(
        create_matrix_according_to_vehicle_count(
            modify_duration_matrix(round_durations(m)), k))

\* A request with MaxVehicles vehicles and MaxVisits customers has been
\* preprocessed (app.py:582).  Its vehicles may come with customers lists
\* of any ids of the request's customers, in any order, repeated or not.
Init ==
    /\ pc = "inflated"
    /\ number_of_vehicles = MaxVehicles
    /\ number_of_customers = MaxVisits
    /\ request_durations = SampleDurations(MaxVisits + 1)
    /\ request_distances = SampleDistances(MaxVisits + 1)
    /\ durations = PreprocessedDurations(request_durations, MaxVehicles)
    /\ distances =
        create_matrix_according_to_vehicle_count(request_distances, MaxVehicles)
    /\ request_vehicle = NoLinks(MaxVisits)
    /\ request_service_duration = service_duration
    /\ location = DistinctLocations(MaxVisits)
    /\ driving_time_seconds_map = <<>>
    /\ driving_distance_meters_map = <<>>
    /\ phase = "request"
    /\ customers \in [1..MaxVehicles -> SeqsUpTo(1..MaxVisits, MaxInputLen)]
    /\ departure_time \in [1..MaxVehicles -> DepartureTimes]
    /\ NoEntities

Next ==
    \/ ConstructPlan
    \/ StartSolving
    \/ AssignVisit
    \/ UnassignVisit
    \/ ReorderVisit
    \/ TransferVisit
    \/ RecomputeAll
    \/ GetRoute

Spec == Init /\ [][Next]_vars

(***************************************************************************)
(* A problem change: AddCustomer.do_change (app.py:680-693), which         *)
(* solve_route submits once per solve (app.py:730).                        *)
(***************************************************************************)
\* A dict key that is a Location object.  It has the hash of its coordinate
\* tuple but is never equal to one (location.py:62-68), so it is a key of
\* its own; Location objects with the same coordinates are the same key.
LocationKey(coord) == -(coord + 10)

\* app.py:675-678: the constants update_location_matrix writes, in tenths.
distance_to_new_location == 215440
time_to_new_location == 16530
distance_from_new_location == 215430
time_from_new_location == 16520

Extend(f, key, val) ==
    [x \in DOMAIN f \cup {key} |-> IF x = key THEN val ELSE f[x]]

\* The coordinates the inserted visit may have: none (longitude and
\* latitude None), the depot's, or coordinates no plan location has.
NewCoordinates == {None, DepotCoordinate, number_of_customers + 1}

\* app.py:674-678 under the loops of do_change (app.py:687-692): every
\* location of the plan gets an entry under the new Location object, and the
\* new location gets one under every location's Location object, its own
\* included (written to by line 675/676 and then by line 677/678).
update_location_matrix(map, coord, to_new, from_new) ==
    LET old == DOMAIN map
        newloc == Len(map) + 1
        keys == {LocationKey(location[c]) : c \in DOMAIN location}
                    \cup {LocationKey(DepotCoordinate) : v \in VehicleIds}
                    \cup {LocationKey(coord)}
    IN  [L \in old \cup {newloc} |->
            IF L = newloc THEN [x \in keys |-> from_new]
            ELSE Extend(map[L], LocationKey(coord), to_new)]

\* AddCustomer.do_change: add_entity appends the customer to the plan's
\* customers (app.py:686), the loops extend the lookups (app.py:687-692),
\* and add_problem_fact appends the customer again (app.py:693).  The new
\* Customer has no vehicle (app.py:729); the handler gives it none.
AddCustomer ==
    /\ phase = "solving"
    /\ number_of_customers + 1 \notin Visits
    /\ \E coord \in NewCoordinates :
        LET new == number_of_customers + 1
        IN  /\ plan_customers' = plan_customers \o <<new, new>>
            /\ location' = Append(location, coord)
            /\ driving_time_seconds_map' =
                update_location_matrix(driving_time_seconds_map, coord,
                    time_to_new_location, time_from_new_location)
            /\ driving_distance_meters_map' =
                update_location_matrix(driving_distance_meters_map, coord,
                    distance_to_new_location, distance_from_new_location)
            /\ vehicle' = Append(vehicle, None)
            /\ previous_customer' = Append(previous_customer, None)
            /\ next_customer' = Append(next_customer, None)
            /\ arrival_time' = Append(arrival_time, None)
    /\ last_move' = "add_customer"
    /\ response' = NoResponse
    /\ UNCHANGED registryVars /\ UNCHANGED <<pipelineVars, phase, customers, departure_time>>

\* The serviceDuration values a request's customers may carry (s).
ServiceDurations == {300, 600}

\* A request with MaxVehicles vehicles, all departing at 0, and
\* MaxChangeVisits customers has been preprocessed.  Its customers are at
\* different places or all at one, and ask for one of ServiceDurations.  Its vehicles' lists
\* may hold an id that no customer carries (MaxChangeVisits + 1), and its
\* first customers may name a vehicle.
InitChange ==
    /\ pc = "inflated"
    /\ number_of_vehicles = MaxVehicles
    /\ number_of_customers = MaxChangeVisits
    /\ request_durations = SampleDurations(MaxChangeVisits + 1)
    /\ request_distances = SampleDistances(MaxChangeVisits + 1)
    /\ durations = PreprocessedDurations(request_durations, MaxVehicles)
    /\ distances =
        create_matrix_according_to_vehicle_count(request_distances, MaxVehicles)
    /\ request_vehicle \in
        {f \in [1..MaxChangeVisits -> {None} \cup (1..MaxVehicles)] :
            \A c \in 1..MaxChangeVisits : c > MaxNamingCustomers => f[c] = None}
    /\ request_service_duration \in ServiceDurations
    /\ location \in {DistinctLocations(MaxChangeVisits),
                     SharedLocations(MaxChangeVisits)}
    /\ driving_time_seconds_map = <<>>
    /\ driving_distance_meters_map = <<>>
    /\ phase = "request"
    /\ customers \in
        [1..MaxVehicles -> SeqsUpTo(1..(MaxChangeVisits + 1), MaxInputLen)]
    /\ departure_time = [v \in 1..MaxVehicles |-> 0]
    /\ NoEntities

NextChange ==
    \/ ConstructPlan
    \/ StartSolving
    \/ AssignVisit
    \/ UnassignVisit
    \/ ReorderVisit
    \/ TransferVisit
    \/ RecomputeAll
    \/ AddCustomer

SpecChange == InitChange /\ [][NextChange]_vars

\* C12: construction is rejected whenever a vehicle's list holds an id no
\* customer carries, or a customer names a vehicle whose list does not hold
\* it.
C12_DanglingReferenceRejected ==
    [][(/\ pc = "inflated"
        /\ \/ \E v \in DOMAIN customers : \E i \in DOMAIN customers[v] :
                customers[v][i] \notin 1..number_of_customers
           \/ \E c \in DOMAIN request_vehicle :
                /\ request_vehicle[c] # None
                /\ \A i \in DOMAIN customers[request_vehicle[c]] :
                        customers[request_vehicle[c]][i] # c)
            => pc' = "rejected"
      ]_vars

(***************************************************************************)
(* Claims about the entity graph (checked under Spec).                     *)
(***************************************************************************)
\* C1: after every structural change and its recompute pass, a visit has
\* an arrival time exactly when a vehicle lists it (and is its vehicle)
\* and its previous visit, if it has one, has an arrival time.
C1_ArrivalDefinedIffReachable ==
    phase = "solving" =>
        \A c \in Visits :
            arrival_time[c] # None <=>
                /\ c \in Assigned(customers)
                /\ vehicle[c] # None
                /\ \/ previous_customer[c] = None
                   \/ arrival_time[previous_customer[c]] # None

\* A visit has just lost its vehicle and its arrival time, while another
\* vehicle-bound visit follows a visit and has an arrival time.
C1_Witness ==
    /\ phase = "solving"
    /\ last_move = "unassign"
    /\ \E c \in Visits : vehicle[c] = None /\ arrival_time[c] = None
    /\ \E c \in Visits :
        /\ previous_customer[c] # None
        /\ arrival_time[c] # None
        /\ arrival_time[previous_customer[c]] # None

\* C2: a visit V that follows a visit P with an arrival time arrives at
\* P.arrival_time + P.service_duration + travel_time(P, V): P's service
\* duration counts once.
C2_ServiceDurationCountedOnce ==
    phase = "solving" =>
        \A c \in Visits :
            (/\ vehicle[c] # None
             /\ previous_customer[c] # None
             /\ arrival_time[previous_customer[c]] # None) =>
                arrival_time[c] =
                    arrival_time[previous_customer[c]] + service_duration
                    + driving_time_to(LocationOf(previous_customer[c]),
                                      CoordinateOf(c))

\* C3: a recompute pass over every chain that follows a pass, with no
\* structural change between them, leaves every arrival time as it is.
C3_RecomputeIdempotent ==
    [][(phase = "solving" /\ last_move' = "recompute")
            => arrival_time' = arrival_time]_vars

\* The pass has run again over a plan with a chain of two visits and a
\* visit without vehicle.
C3_Witness ==
    /\ phase = "solving"
    /\ last_move = "recompute"
    /\ \E c \in Visits : previous_customer[c] # None /\ arrival_time[c] # None
    /\ \E c \in Visits : vehicle[c] = None

\* C4: in every plan state, the one json_to_vehicle_route_plan builds
\* included, the links mirror the lists: the visits of vehicle v's list
\* have v as their vehicle, the first has no previous visit, the last no
\* next visit, and each one's next visit is the one listed after it.
C4_LinksMirrorLists ==
    PlanBuilt =>
        \A v \in DOMAIN customers : \A i \in DOMAIN customers[v] :
            LET c == customers[v][i]
            IN  /\ vehicle[c] = v
                /\ i = 1 => previous_customer[c] = None
                /\ i = Len(customers[v]) => next_customer[c] = None
                /\ i < Len(customers[v]) => next_customer[c] = customers[v][i + 1]

\* C5: in every plan state, the one json_to_vehicle_route_plan builds
\* included, no visit is listed by two vehicles or twice by one.
C5_VisitListedAtMostOnce == PlanBuilt => NoDuplicates(customers)

\* C13: in every plan state, one whose lists hold a visit without arrival
\* time included, the per-visit projections and Vehicle.arrival_time yield
\* a value or None and raise nothing.
C13_AggregatesNeverRaise ==
    PlanBuilt =>
        /\ \A v \in VehicleIds : Vehicle_arrival_time(v) # Error
        /\ \A c \in Visits : drivingTimeSecondsToDepot(c) # Error

\* C14: the delay of a visit is max(0, ceil((departure - due) / 1 minute)):
\* 0 for a visit without arrival time or one that departs by its due time,
\* and never negative.
C14_DelayIsClampedCeiling ==
    PlanBuilt =>
        \A c \in Visits :
            LET late == departureTime(c) - due_time(c)
            IN  /\ get_service_finished_delay_in_minutes(c) >= 0
                /\ get_service_finished_delay_in_minutes(c) =
                    IF arrival_time[c] = None \/ late <= 0 THEN 0
                    ELSE (late + 59) \div 60

RECURSIVE SumSeq(_)
SumSeq(seq) == IF seq = <<>> THEN 0 ELSE Head(seq) + SumSeq(Tail(seq))

\* Leg i of vehicle v's route depot -> v1 -> ... -> vn -> depot: the index
\* of the location it leaves and the coordinates it goes to.
LegFrom(v, i) == IF i = 1 THEN v ELSE LocationOf(customers[v][i - 1])
LegTo(v, i) ==
    IF i = Len(customers[v]) + 1 THEN DepotCoordinate
    ELSE CoordinateOf(customers[v][i])

\* C15: a vehicle with visits v1..vn has as total driving time the travel
\* times of the legs depot -> v1 -> ... -> vn -> depot, plus the visits'
\* service durations, plus 60 per visit, and as total driving distance the
\* distances of the same legs; a vehicle without visits has 0 and 0; the
\* total fuel is the distance divided by the mileage, truncated.
C15_VehicleTotals ==
    PlanBuilt =>
        \A v \in VehicleIds :
            LET n == Len(customers[v])
                time == calculate_total_driving_time_seconds(v)
                dist == calculate_total_driving_distance_meters(v)
                fuel == total_fuel_litre(v)
            IN  /\ n = 0 => time = 0 /\ dist = 0
                /\ n > 0 =>
                    /\ time =
                        SumSeq([i \in 1..(n + 1) |->
                                    driving_time_to(LegFrom(v, i), LegTo(v, i))])
                        + SumSeq([i \in 1..n |-> service_duration]) + 60 * n
                    /\ dist =
                        SumSeq([i \in 1..(n + 1) |->
                                    driving_distance_to(LegFrom(v, i), LegTo(v, i))])
                /\ fuel * mileage(v) <= dist
                /\ dist < (fuel + 1) * mileage(v)

\* The solver has given one vehicle two visits, whose distance is not a
\* multiple of the mileage, and left another vehicle empty.
C15_Witness ==
    /\ phase = "solving"
    /\ \E v \in VehicleIds :
        /\ Len(customers[v]) = 2
        /\ calculate_total_driving_distance_meters(v) % mileage(v) # 0
        /\ calculate_total_driving_time_seconds(v) > 2 * service_duration + 120
    /\ \E v \in VehicleIds : Len(customers[v]) = 0

\* C16: the plan's total driving time is the sum of the vehicles' totals
\* plus the service durations of all the plan's visits, with or without
\* vehicle; its total distance and total fuel are the sums of the
\* vehicles'.
C16_PlanTotals ==
    PlanBuilt =>
        /\ total_driving_time_seconds =
            SumSeq([v \in VehicleIds |-> calculate_total_driving_time_seconds(v)])
            + SumSeq([c \in Visits |-> service_duration])
        /\ total_driving_distance_meters =
            SumSeq([v \in VehicleIds |->
                        calculate_total_driving_distance_meters(v)])
        /\ total_fuel_liter =
            SumSeq([v \in VehicleIds |-> total_fuel_litre(v)])

\* Two vehicles have visits and one visit has no vehicle.
C16_Witness ==
    /\ phase = "solving"
    /\ \A v \in VehicleIds : Len(customers[v]) > 0
    /\ \E c \in Visits : vehicle[c] = None
    /\ total_driving_distance_meters > 0
    /\ total_fuel_liter > 0

\* C17: in the answer of get_route the first vehicle has its plan's
\* departure and arrival times, and every later vehicle departs at least
\* 60 seconds after the arrival the answer gives the vehicle before it,
\* with the same arrival minus departure as in the plan.
C17_StaggeredDepartures ==
    response.status = "ok" =>
        /\ Len(response.vehicles) = number_of_vehicles
        /\ number_of_vehicles >= 1 =>
            /\ response.vehicles[1].departureTime = departure_time[1]
            /\ response.vehicles[1].arrival_time = Vehicle_arrival_time(1)
        /\ \A i \in 2..number_of_vehicles :
            /\ response.vehicles[i].departureTime
                    >= response.vehicles[i - 1].arrival_time + 60
            /\ response.vehicles[i].arrival_time
                    - response.vehicles[i].departureTime
                = Vehicle_arrival_time(i) - departure_time[i]

\* get_route has answered for a solved plan whose two vehicles both have
\* visits and the second of which is moved to a later departure.
C17_Witness ==
    /\ phase = "solving"
    /\ response.status = "ok"
    /\ \A v \in VehicleIds : Len(customers[v]) > 0
    /\ response.vehicles[2].departureTime > departure_time[2]
    /\ response.vehicles[2].arrival_time # Vehicle_arrival_time(2)

\* C18: a get_route call leaves the registered plan as it was: the
\* vehicles' departure times and lists, the visits' links and arrival
\* times, and every location's lookups.
C18_GetRouteChangesNothing ==
    [][response'.status # "none" =>
        UNCHANGED <<phase, customers, departure_time, vehicle,
                    previous_customer, next_customer, arrival_time, location,
                    plan_customers, lookupVars, pipelineVars>>
      ]_vars

\* get_route has answered with a second vehicle whose departure it moved.
C18_Witness ==
    /\ response.status = "ok"
    /\ phase = "solving"
    /\ \E v \in VehicleIds :
        response.vehicles[v].departureTime # departure_time[v]

\* C25: a change of the lists whose first changed position in a vehicle's
\* list is p leaves the arrival time of the visits of that list below p as
\* it was, and so the arrival time of every visit of a vehicle whose list
\* did not change.
C25_PrefixUntouched ==
    [][ (phase = "solving" /\ phase' = "solving" /\ customers' # customers) =>
            \A v \in VehicleIds :
                \A i \in DOMAIN customers'[v] :
                    i < FirstChanged(customers[v], customers'[v]) =>
                        arrival_time'[customers'[v][i]]
                            = arrival_time[customers'[v][i]]
      ]_vars

\* A visit has entered one list while the other vehicle has visits of its
\* own, all with an arrival time.
C25_Witness ==
    /\ phase = "solving"
    /\ last_move = "assign"
    /\ \A v \in VehicleIds : customers[v] # <<>>
    /\ \E v \in VehicleIds : Len(customers[v]) >= 2
    /\ \A c \in Assigned(customers) : arrival_time[c] # None

\* C30: a visit with an arrival time is not left before its service can
\* have ended: departure_time() is at least start of service, the later of
\* ready_time and arrival_time, plus service_duration.
C30_DepartureAfterService ==
    phase = "solving" =>
        \A c \in Visits :
            arrival_time[c] # None =>
                departureTime(c) >= startServiceTime(c) + service_duration

(***************************************************************************)
(* Claims about the problem change (checked under SpecChange).             *)
(***************************************************************************)
\* The visit AddCustomer brings, once it is in the plan.
InsertedVisit == number_of_customers + 1

\* The coordinates of the location at index L of the plan's location list.
CoordinateAt(L) ==
    IF L <= number_of_vehicles THEN DepotCoordinate
    ELSE location[L - number_of_vehicles]

\* C19: after an insertion, every location L that was in the plan has a
\* travel time and a distance to the new visit's location, and the new
\* location has them to L, under the key driving_time_to and
\* driving_distance_to look up: the coordinates.
C19_NewLocationLookupsDefined ==
    InsertedVisit \in Visits =>
        \A L \in 1..(number_of_vehicles + number_of_customers) :
            /\ CoordinateOf(InsertedVisit) \in DOMAIN driving_time_seconds_map[L]
            /\ CoordinateOf(InsertedVisit) \in DOMAIN driving_distance_meters_map[L]
            /\ CoordinateAt(L) \in
                DOMAIN driving_time_seconds_map[LocationOf(InsertedVisit)]
            /\ CoordinateAt(L) \in
                DOMAIN driving_distance_meters_map[LocationOf(InsertedVisit)]

\* C20: while the plan is solved, a step either leaves the plan's visits
\* and every lookup as they are, or inserts a visit whose location can be
\* resolved (it has coordinates): an insertion that cannot be resolved is
\* rejected whole.
C20_UnresolvableInsertionRejected ==
    [][phase = "solving" =>
        \/ /\ plan_customers' = plan_customers
           /\ driving_time_seconds_map' = driving_time_seconds_map
           /\ driving_distance_meters_map' = driving_distance_meters_map
        \/ /\ InsertedVisit \in DOMAIN location'
           /\ location'[InsertedVisit] # None
      ]_vars

\* C26: after construction every location's lookups give, for every
\* location of the plan, the entry of the preprocessed matrices for that
\* pair of positions, rounded, whether or not visits share coordinates.
C26_LookupsMatchMatrix ==
    (PlanBuilt /\ InsertedVisit \notin Visits) =>
        \A i, j \in 1..(number_of_vehicles + number_of_customers) :
            /\ driving_time_to(i, CoordinateAt(j))
                    = RoundHalfEven(durations[i][j])
            /\ driving_distance_to(i, CoordinateAt(j))
                    = RoundHalfEven(distances[i][j])

\* C27: the service_duration of the plan's visits is the serviceDuration
\* the request gave, whatever its value.
C27_ServiceDurationAsRequested ==
    PlanBuilt => service_duration = request_service_duration

\* How many times x occurs in seq.
Occurrences(seq, x) == Cardinality({i \in DOMAIN seq : seq[i] = x})

\* C28: an insertion puts the new visit into the plan's customers once,
\* leaves every visit that was there in it once, and changes no vehicle's
\* list.
C28_InsertedExactlyOnce ==
    [][(InsertedVisit \notin Visits /\ InsertedVisit \in Visits') =>
            /\ Occurrences(plan_customers', InsertedVisit) = 1
            /\ \A c \in Visits : Occurrences(plan_customers', c) = 1
            /\ customers' = customers
      ]_vars

\* C29: once the plan is built, and after an insertion too, every
\* location's lookups have its own coordinates as a key, with travel time
\* 0 and distance 0.
C29_SelfTravelIsZero ==
    PlanBuilt =>
        \A L \in DOMAIN driving_time_seconds_map :
            /\ CoordinateAt(L) \in DOMAIN driving_time_seconds_map[L]
            /\ CoordinateAt(L) \in DOMAIN driving_distance_meters_map[L]
            /\ driving_time_to(L, CoordinateAt(L)) = 0
            /\ driving_distance_to(L, CoordinateAt(L)) = 0

(***************************************************************************)
(* The registry data_sets and the handlers that touch it (api/app.py).     *)
(* Every handler is a coroutine (async def) whose body has no await, so    *)
(* the event loop runs it to its end before it runs another: solve_route   *)
(* is shown as its two writes to the registry, with the event loop held in *)
(* between, and every handler starts only when the event loop is free.     *)
(* A stored plan is shown as the request it was built from and how far it  *)
(* got.                                                                    *)
(***************************************************************************)
Ids == 1..MaxRequests

\* A slip that lets handlers run beside a solve_route that has not ended,
\* as handlers without async (run in the thread pool) would.
EventLoopFree_Threaded == TRUE

\* The event loop takes a handler only when it runs none.
EventLoopFree == running.handler = "none"

\* solver.is_solving() (app.py:82): the one solver of solver.py:53 is
\* solving from solver.solve's call to its return.
solver_is_solving == running.handler = "solve_route"

\* app.py:715-721: a fresh id, the plan stored under it, solver.solve
\* called.
SolveRouteStart ==
    /\ EventLoopFree
    /\ issued < MaxRequests
    /\ issued' = issued + 1
    /\ data_sets' = Extend(data_sets, issued + 1,
                           [request |-> issued + 1, plan |-> "constructed"])
    /\ running' = [handler |-> "solve_route", id |-> issued + 1]
    /\ UNCHANGED <<answer, cleared, pipelineVars, lookupVars, planVars>>

\* app.py:721-730: solver.solve returns, update_route (app.py:198-214)
\* stores the solution under the id, and line 730 names solver_manager,
\* which no line of app.py defines: NameError, and the return of line 731
\* is not reached.
SolveRouteFinish ==
    /\ running.handler = "solve_route"
    /\ data_sets' = Extend(data_sets, running.id,
                           [request |-> running.id, plan |-> "solved"])
    /\ answer' = [handler |-> "solve_route", id |-> running.id,
                  value |-> "NameError"]
    /\ running' = [handler |-> "none", id |-> 0]
    /\ UNCHANGED <<issued, cleared, pipelineVars, lookupVars, planVars>>

\* app.py:791-807
ClearDatasets ==
    /\ EventLoopFree
    /\ data_sets' = <<>>
    /\ cleared' = 1..issued
    /\ answer' = [handler |-> "clear_datasets", id |-> 0, value |-> "True"]
    /\ UNCHANGED <<issued, running, pipelineVars, lookupVars, planVars>>

\* app.py:80-82
get_status(id) ==
    IF id \notin DOMAIN data_sets THEN "No route plan found."
    ELSE IF solver_is_solving THEN "SOLVING" ELSE "NOT SOLVING"

\* get_status, app.py:65-82
GetStatus ==
    /\ EventLoopFree
    /\ \E id \in Ids :
        answer' = [handler |-> "get_status", id |-> id, value |-> get_status(id)]
    /\ UNCHANGED <<data_sets, issued, running, cleared, pipelineVars,
                   lookupVars, planVars>>

\* get_route, app.py:116-119: the lookup of the id in the registry.
GetRouteById ==
    /\ EventLoopFree
    /\ \E id \in Ids :
        answer' = [handler |-> "get_route", id |-> id,
                   value |-> IF id \notin DOMAIN data_sets
                             THEN "No route plan found." ELSE "route_dict"]
    /\ UNCHANGED <<data_sets, issued, running, cleared, pipelineVars,
                   lookupVars, planVars>>

\* stop_solving, app.py:774-788: its one line names solver_manager, which
\* no line of app.py defines: NameError.
StopSolving ==
    /\ EventLoopFree
    /\ \E id \in Ids :
        answer' = [handler |-> "stop_solving", id |-> id, value |-> "NameError"]
    /\ UNCHANGED <<data_sets, issued, running, cleared, pipelineVars,
                   lookupVars, planVars>>

\* The server has started: no request yet.
InitRegistry ==
    /\ pc = "idle"
    /\ durations = <<>>
    /\ distances = <<>>
    /\ number_of_vehicles = 0
    /\ number_of_customers = 0
    /\ request_durations = <<>>
    /\ request_distances = <<>>
    /\ request_vehicle = <<>>
    /\ request_service_duration = service_duration
    /\ location = <<>>
    /\ driving_time_seconds_map = <<>>
    /\ driving_distance_meters_map = <<>>
    /\ phase = "idle"
    /\ customers = <<>>
    /\ departure_time = <<>>
    /\ NoEntities

NextRegistry ==
    \/ SolveRouteStart
    \/ SolveRouteFinish
    \/ ClearDatasets
    \/ GetStatus
    \/ GetRouteById
    \/ StopSolving

SpecRegistry == InitRegistry /\ [][NextRegistry]_vars

(***************************************************************************)
(* Claims about the registry (checked under SpecRegistry).                 *)
(***************************************************************************)
\* C21: the registry's writes do not interleave: an id given out before
\* the last finished clear has no entry (only a request that starts after
\* the clear inserts one, under a new id), and the entry of an id is its
\* own request's plan, constructed while its solve_route runs and solved
\* after.
C21_RegistryWritesSerialized ==
    /\ DOMAIN data_sets \cap cleared = {}
    /\ \A id \in DOMAIN data_sets :
        /\ data_sets[id].request = id
        /\ data_sets[id].plan = "constructed"
            <=> running = [handler |-> "solve_route", id |-> id]

\* After a clear, a later request has put its solved plan into the
\* registry.
C21_Witness ==
    /\ cleared # {}
    /\ \E id \in DOMAIN data_sets : data_sets[id].plan = "solved"
    /\ answer.handler = "solve_route"

\* The status of plan id as its own requests alone determine it.
OwnStatus(id) ==
    IF id \notin DOMAIN data_sets THEN "No route plan found."
    ELSE IF running = [handler |-> "solve_route", id |-> id] THEN "SOLVING"
    ELSE "NOT SOLVING"

\* C22: what get_status and get_route answer for a plan depends on the
\* requests for that plan only: the status is the plan's own, whatever is
\* started, solved or stopped for another plan, and the plan stored under
\* an id is the one built from that id's request.
C22_NoStateSharedBetweenPlans ==
    [][ /\ (answer' # answer /\ answer'.handler = "get_status")
            => answer'.value = OwnStatus(answer'.id)
        /\ \A id \in DOMAIN data_sets' : data_sets'[id].request = id
        /\ \A id \in DOMAIN data_sets \cap DOMAIN data_sets' :
            (running'.id # id /\ running.id # id)
                => data_sets'[id] = data_sets[id]
      ]_vars

\* The status of the first plan is asked for while a second plan is in
\* the registry.
C22_Witness ==
    /\ answer = [handler |-> "get_status", id |-> 1, value |-> "NOT SOLVING"]
    /\ 2 \in DOMAIN data_sets
    /\ 1 \in DOMAIN data_sets

\* C23: a DELETE for a plan of the registry ends the solving of that plan
\* early and leaves the plan retrievable: the request reaches the
\* solver's early termination and is answered, after which nothing is
\* solving the plan and the registry holds it, solved.
C23_StopSolvingTerminates ==
    (answer.handler = "stop_solving" /\ answer.id \in DOMAIN data_sets) =>
        /\ answer.value = "terminated"
        /\ running.id # answer.id
        /\ data_sets[answer.id].plan = "solved"

\* C24: a POST /route-plans with a valid plan gives its caller the fresh
\* solver id, under which the registry then holds the solved plan, so
\* that get_status and get_route for it do not answer 'No route plan
\* found.'; for an id never given out or cleared they do.
C24_SolveRouteReturnsId ==
    /\ answer.handler = "solve_route" =>
        /\ answer.value = "solver_id"
        /\ answer.id \in DOMAIN data_sets
        /\ data_sets[answer.id].plan = "solved"
    /\ (answer.handler \in {"get_status", "get_route"}
            /\ (answer.id > issued \/ answer.id \in cleared))
        => answer.value = "No route plan found."

====
